---- MODULE Spec2Model ----
(***************************************************************************)
(* Model of elastic-search-server/index.js: the socket.io session handlers *)
(* (register, subscribeToTopic, unsubscribeFromTopic, disconnect), the     *)
(* in-memory userSubscriptions map, the POST /posts publish handler with   *)
(* its fan-out loop, and the notification and subscription HTTP routes.    *)
(*                                                                         *)
(* Node runs one handler at a time; a handler gives up control only at an  *)
(* await.  POST /posts therefore is split at its awaits (the save of the   *)
(* post, and one createNotification per notified user); every other        *)
(* handler is one step.  The two Elasticsearch indices are modelled as the *)
(* documents they hold: an index call either stores the document or        *)
(* rejects, a term query answers with every matching document.             *)
(***************************************************************************)
EXTENDS Integers, Sequences, FiniteSets, TLC

\* ----------------------------------------------------------------- bounds
MaxReqs == 2        \* POST /posts requests in one behaviour, at most
MaxInFlight == 1    \* of them unanswered at the same time (SpecSeq)
MaxPosts == 1       \* POST /posts requests in one behaviour of Spec
MaxSockets == 1     \* socket.io connections that can be live at once
MaxPairSockets == 2 \*   and in SpecPair, where one user has two sessions

\* ----------------------------------------------------------------- inputs
Users == {"alice", "bob"}
\* Topic names are free client strings; one of them equals a username,
\* because socket.io rooms of users and of topics share one namespace.
Topics == {"sports", "alice"}
SeqUsers == {"alice"}      \* the clients and
SeqTopics == {"sports"}    \*   the topics of SpecSeq
PostIds == {"p1", "p2"}
Authors == {"bob"}
Titles == {"Game Day"}
Missing == ""              \* a falsy (absent) body field
NoUser == "undefined"      \* socket.username before 'register'
Reqs == 1..MaxReqs
Sockets == 1..MaxSockets
AllSockets == 1..MaxPairSockets

\* ------------------------------------------------ JS Set (insertion order)
SetHas(set, x) == \E i \in DOMAIN set : set[i] = x

\* Faulty variant: add as a toggle
SetToggle(set, x) ==
  IF SetHas(set, x) THEN SelectSeq(set, LAMBDA y : y # x) ELSE Append(set, x)

SetAdd(set, x) == IF SetHas(set, x) THEN set ELSE Append(set, x)

SetDelete(set, x) == SelectSeq(set, LAMBDA y : y # x)

ArrayFrom(set) == set

\* --------------------------------- userSubscriptions (object, key order)
\* A sequence of [username, topics] entries in key insertion order.
HasKey(subs, u) == \E i \in DOMAIN subs : subs[i].username = u

TopicsOf(subs, u) ==
  IF HasKey(subs, u)
  THEN (CHOOSE e \in {subs[i] : i \in DOMAIN subs} : e.username = u).topics
  ELSE <<>>

Keys(subs) == [i \in DOMAIN subs |-> subs[i].username]

SubscribersOf(subs, t) == {u \in Users : SetHas(TopicsOf(subs, u), t)}

\* lines 137-140: create the user's Set when absent, then add the topic
AddSubscription(subs, u, t) ==
  LET withKey == IF HasKey(subs, u) THEN subs
                 ELSE Append(subs, [username |-> u, topics |-> <<>>])
  IN [i \in DOMAIN withKey |->
        IF withKey[i].username = u
        THEN [withKey[i] EXCEPT !.topics = SetAdd(@, t)]
        ELSE withKey[i]]

\* Faulty variant: the topic is never deleted
DeleteNothing(subs, u, t) == subs

\* lines 147-149 and 355-357: delete the topic from the user's Set, if any
DeleteSubscription(subs, u, t) ==
  [i \in DOMAIN subs |->
     IF subs[i].username = u
     THEN [subs[i] EXCEPT !.topics = SetDelete(@, t)]
     ELSE subs[i]]

\* ------------------------------------------------------------ notification
\* line 190: a field the body lacks is undefined, which a template literal
\* shows as the text "undefined"
Shown(field) == IF field = Missing THEN "undefined" ELSE field

\* Faulty variant: author and title change places in the template
MessageSwapped(topic, author, title) ==
  <<"New post in ", topic, " posted by ", title, ": ", author>>

\* line 190: the template literal, as its parts
Message(topic, author, title) ==
  <<"New post in ", Shown(topic), " posted by ", Shown(author), ": ",
    Shown(title)>>

\* lines 191-196
Notification(post, timestamp) ==
  [message |-> Message(post.topic, post.author, post.title),
   timestamp |-> timestamp,
   postId |-> post.id,
   topic |-> post.topic]

\* Faulty variant: the document is indexed without its recipient
NotificationDocNoUser(username, n) ==
  [username |-> Missing, message |-> n.message, timestamp |-> n.timestamp,
   postId |-> n.postId, topic |-> n.topic, read |-> FALSE]

\* lines 161-165: the document createNotification indexes
NotificationDoc(username, n) ==
  [username |-> username, message |-> n.message, timestamp |-> n.timestamp,
   postId |-> n.postId, topic |-> n.topic, read |-> FALSE]

\* line 201: io.to(room) addresses every connected socket that has joined
\* the room
Recipients(socks, room) ==
  {s \in AllSockets : socks[s].connected /\ room \in socks[s].rooms}

\* line 201: io.to(room).emit('newPost', n)
Emit(socks, room, n) ==
  <<[room |-> room, event |-> n, to |-> Recipients(socks, room)]>>

\* Faulty variant: the loop notifies every key, whatever its Set holds
NextMatchNoCheck(subs, keys, topic) == keys

\* lines 198-199: advance the for-in loop to the next key whose Set has the
\* topic; the key list was fixed when the loop began, the Set is read live
RECURSIVE NextMatch(_, _, _)
NextMatch(subs, keys, topic) ==
  IF keys = <<>> THEN <<>>
  ELSE IF SetHas(TopicsOf(subs, Head(keys)), topic) THEN keys
  ELSE NextMatch(subs, Tail(keys), topic)

\* lines 217-225: term query on username, sorted by timestamp descending.
\* The request names no size, so the store answers with its first page of
\* hits; a user here never has more documents than one page holds (at most
\* MaxReqs), and the answer is every match.
RECURSIVE InsertDesc(_, _)
InsertDesc(sorted, d) ==
  IF sorted = <<>> THEN <<d>>
  ELSE IF Head(sorted).timestamp >= d.timestamp
       THEN <<Head(sorted)>> \o InsertDesc(Tail(sorted), d)
       ELSE <<d>> \o sorted

RECURSIVE SortDesc(_)
SortDesc(docs) ==
  IF docs = <<>> THEN <<>>
  ELSE InsertDesc(SortDesc(SubSeq(docs, 1, Len(docs) - 1)), docs[Len(docs)])

SearchNotifications(index, username) ==
  SortDesc(SelectSeq(index, LAMBDA d : d.username = username))

\* Faulty variant: deleteByQuery without the term: every document goes
DeleteEverything(index, username) == <<>>

\* lines 237-245: deleteByQuery with the same term query
DeleteByUsername(index, username) ==
  SelectSeq(index, LAMBDA d : d.username # username)

\* ------------------------------------------------ routes that only answer
\* lines 213-227: GET /notifications/:username, the successful response
GetNotifications(index, username) ==
  [status |-> 200, notifications |-> SearchNotifications(index, username)]

\* lines 363-368: GET /subscriptions/:username
GetSubscriptions(subs, username) ==
  [status |-> 200, topics |-> ArrayFrom(TopicsOf(subs, username))]

\* lines 340-346: POST /subscribe, its response and the map it leaves
SubscribeRoute(subs, username, topic) ==
  IF username = Missing \/ topic = Missing
  THEN [status |-> 400, userSubscriptions |-> subs]
  ELSE [status |-> 200, userSubscriptions |-> subs]

\* lines 349-360: POST /unsubscribe, its response and the map it leaves
UnsubscribeRoute(subs, username, topic) ==
  IF username = Missing \/ topic = Missing
  THEN [status |-> 400, userSubscriptions |-> subs]
  ELSE [status |-> 200,
        userSubscriptions |-> DeleteSubscription(subs, username, topic)]

\* ------------------------------------------------------------------ state
VARIABLES
  userSubscriptions,  \* line 122: username -> Set of topics, in key order
  sockets,            \* per connection: connected, socket.username, rooms
  emitted,            \* the 'newPost' emit of the step just taken, if any
  posts,              \* documents of index es_index7
  notifications,      \* documents of index notifications_index, oldest first
  pubs,               \* per POST /posts request: where the handler stands
  hist                \* per POST /posts request: what happened during it

vars == <<userSubscriptions, sockets, emitted, posts, notifications, pubs,
          hist>>

NoPost == [id |-> Missing, title |-> Missing, topic |-> Missing,
           author |-> Missing]

FreshSocket == [connected |-> FALSE, username |-> NoUser, rooms |-> {}]

IdlePub == [pc |-> "idle", post |-> NoPost, timestamp |-> 0, keys |-> <<>>,
            status |-> 0]

\* atSave: the subscribers of the topic when the post was persisted;
\* held: those of them subscribed ever since; absent: the users not
\* subscribed then and never since; appended: the users a notification was
\* stored for, in order; failed: the users whose notification was rejected;
\* cleared: the users whose stored notification was cleared afterwards
NoHist == [atSave |-> {}, held |-> {}, absent |-> {}, appended |-> <<>>,
           failed |-> {}, cleared |-> {}]

InFlight(p) == p.pc \in {"saving", "notifying"}

Started == {r \in Reqs : pubs[r].pc # "idle"}

\* line 193: new Date() of a publish; later publishes get later timestamps
SavedCount(ps) ==
  Cardinality({r \in Reqs : ps[r].pc = "notifying" \/ ps[r].status = 201})

\* The history of the requests in flight follows the map
Track(h, ps, subs2) ==
  [r \in Reqs |->
     IF ps[r].pc = "notifying"
     THEN [h[r] EXCEPT
             !.held = @ \cap SubscribersOf(subs2, ps[r].post.topic),
             !.absent = @ \ SubscribersOf(subs2, ps[r].post.topic)]
     ELSE h[r]]

Init ==
  /\ userSubscriptions = <<>>
  /\ sockets = [s \in AllSockets |-> FreshSocket]
  /\ emitted = <<>>
  /\ posts = {}
  /\ notifications = <<>>
  /\ pubs = [r \in Reqs |-> IdlePub]
  /\ hist = [r \in Reqs |-> NoHist]

\* -------------------------------------------------------- socket handlers
\* line 124: a client connects
Connect(s) ==
  /\ ~sockets[s].connected
  /\ sockets' = [sockets EXCEPT ![s] = [FreshSocket EXCEPT !.connected = TRUE]]
  /\ emitted' = <<>>
  /\ UNCHANGED <<userSubscriptions, posts, notifications, pubs, hist>>

\* lines 127-131
Register(s, username) ==
  /\ sockets[s].connected
  /\ sockets' = [sockets EXCEPT ![s].username = username,
                                ![s].rooms = @ \cup {username}]
  /\ emitted' = <<>>
  /\ UNCHANGED <<userSubscriptions, posts, notifications, pubs, hist>>

\* lines 133-142
SubscribeToTopic(s, topic) ==
  LET u == sockets[s].username IN
  /\ sockets[s].connected
  /\ sockets' = [sockets EXCEPT ![s].rooms = @ \cup {topic}]
  /\ userSubscriptions' = IF u # NoUser
                          THEN AddSubscription(userSubscriptions, u, topic)
                          ELSE userSubscriptions
  /\ hist' = Track(hist, pubs, userSubscriptions')
  /\ emitted' = <<>>
  /\ UNCHANGED <<posts, notifications, pubs>>

\* Faulty variant: the subscription is kept per session, and goes only when
\* no other connected session of the user is still in the topic's room
UnsubscribeFromTopicPerSession(s, topic) ==
  LET u == sockets[s].username
      others == {o \in AllSockets \ {s} :
                   /\ sockets[o].connected
                   /\ sockets[o].username = u
                   /\ topic \in sockets[o].rooms}
  IN
  /\ sockets[s].connected
  /\ sockets' = [sockets EXCEPT ![s].rooms = @ \ {topic}]
  /\ userSubscriptions' = IF u # NoUser /\ others = {}
                          THEN DeleteSubscription(userSubscriptions, u, topic)
                          ELSE userSubscriptions
  /\ hist' = Track(hist, pubs, userSubscriptions')
  /\ emitted' = <<>>
  /\ UNCHANGED <<posts, notifications, pubs>>

\* lines 144-150
UnsubscribeFromTopic(s, topic) ==
  LET u == sockets[s].username IN
  /\ sockets[s].connected
  /\ sockets' = [sockets EXCEPT ![s].rooms = @ \ {topic}]
  /\ userSubscriptions' = IF u # NoUser
                          THEN DeleteSubscription(userSubscriptions, u, topic)
                          ELSE userSubscriptions
  /\ hist' = Track(hist, pubs, userSubscriptions')
  /\ emitted' = <<>>
  /\ UNCHANGED <<posts, notifications, pubs>>

\* Faulty variant: the disconnect handler drops the user's subscriptions
DisconnectForgets(s) ==
  /\ sockets[s].connected
  /\ sockets' = [sockets EXCEPT ![s] = FreshSocket]
  /\ userSubscriptions' =
       [i \in DOMAIN userSubscriptions |->
          IF userSubscriptions[i].username = sockets[s].username
          THEN [userSubscriptions[i] EXCEPT !.topics = <<>>]
          ELSE userSubscriptions[i]]
  /\ hist' = Track(hist, pubs, userSubscriptions')
  /\ emitted' = <<>>
  /\ UNCHANGED <<posts, notifications, pubs>>

\* lines 152-154: socket.io takes a closed socket out of all its rooms
Disconnect(s) ==
  /\ sockets[s].connected
  /\ sockets' = [sockets EXCEPT ![s] = FreshSocket]
  /\ emitted' = <<>>
  /\ UNCHANGED <<userSubscriptions, posts, notifications, pubs, hist>>

\* ------------------------------------------------------------ POST /posts
\* Post ids are interchangeable: a request reuses an id or takes a new one
UsedIds == {pubs[r].post.id : r \in Started}

IdChoices == IF PostIds \subseteq UsedIds THEN PostIds
             ELSE UsedIds \cup {CHOOSE id \in PostIds \ UsedIds : TRUE}

\* lines 174-183: the handler builds the post and calls client.index, then
\* waits for the content store
PostStart(id, topic, author, title) ==
  \E r \in Reqs :
    /\ pubs[r].pc = "idle"
    /\ \A q \in Reqs : q < r => pubs[q].pc # "idle"
    /\ id \in IdChoices
    /\ pubs' = [pubs EXCEPT ![r] =
                  [IdlePub EXCEPT !.pc = "saving",
                                  !.post = [id |-> id, title |-> title,
                                            topic |-> topic,
                                            author |-> author]]]
    /\ emitted' = <<>>
    /\ UNCHANGED <<userSubscriptions, sockets, posts, notifications, hist>>

\* lines 183-206 up to the first await of the loop: the save is answered,
\* the notification is built, the for-in loop starts and runs to the first
\* subscriber of the topic (or to the 201 when there is none)
SaveAccepted(r) ==
  LET post == pubs[r].post
      keys == NextMatch(userSubscriptions, Keys(userSubscriptions), post.topic)
      subscribers == SubscribersOf(userSubscriptions, post.topic)
  IN
  /\ pubs[r].pc = "saving"
  /\ posts' = {p \in posts : p.id # post.id} \cup {post}
  /\ pubs' = [pubs EXCEPT ![r].timestamp = SavedCount(pubs) + 1,
                          ![r].keys = keys,
                          ![r].pc = IF keys = <<>> THEN "done" ELSE "notifying",
                          ![r].status = IF keys = <<>> THEN 201 ELSE 0]
  /\ hist' = [hist EXCEPT ![r].atSave = subscribers,
                          ![r].held = subscribers,
                          ![r].absent = Users \ subscribers]
  /\ emitted' = <<>>
  /\ UNCHANGED <<userSubscriptions, sockets, notifications>>

\* Faulty variant: the notifications are written without waiting for the save:
\* the subscribers are notified although the request answers 500
SaveRejectedNotifying(r) ==
  LET post == pubs[r].post
      n == Notification(post, SavedCount(pubs) + 1)
      keys == SelectSeq(Keys(userSubscriptions),
                        LAMBDA u : SetHas(TopicsOf(userSubscriptions, u),
                                          post.topic))
  IN
  /\ pubs[r].pc = "saving"
  /\ pubs' = [pubs EXCEPT ![r].pc = "done", ![r].status = 500]
  /\ notifications' =
       notifications \o [i \in DOMAIN keys |-> NotificationDoc(keys[i], n)]
  /\ hist' = [hist EXCEPT ![r].appended = keys]
  /\ emitted' = <<>>
  /\ UNCHANGED <<userSubscriptions, sockets, posts>>

\* lines 183, 207-210: client.index rejects; the catch answers 500
SaveRejected(r) ==
  /\ pubs[r].pc = "saving"
  /\ pubs' = [pubs EXCEPT ![r].pc = "done", ![r].status = 500]
  /\ emitted' = <<>>
  /\ UNCHANGED <<userSubscriptions, sockets, posts, notifications, hist>>

\* lines 201-206: after createNotification returns, emit to the user's room
\* and go on to the next subscriber, or answer 201
AfterNotification(r) ==
  LET u == Head(pubs[r].keys)
      n == Notification(pubs[r].post, pubs[r].timestamp)
      rest == NextMatch(userSubscriptions, Tail(pubs[r].keys),
                        pubs[r].post.topic)
  IN
  /\ emitted' = Emit(sockets, u, n)
  /\ pubs' = [pubs EXCEPT ![r].keys = rest,
                          ![r].pc = IF rest = <<>> THEN "done" ELSE "notifying",
                          ![r].status = IF rest = <<>> THEN 201 ELSE 0]
  /\ UNCHANGED <<userSubscriptions, sockets, posts>>

\* lines 159-168: the notification document is stored
NotificationStored(r) ==
  LET u == Head(pubs[r].keys)
      n == Notification(pubs[r].post, pubs[r].timestamp)
  IN
  /\ pubs[r].pc = "notifying"
  /\ notifications' = Append(notifications, NotificationDoc(u, n))
  /\ AfterNotification(r)
  /\ hist' = [hist EXCEPT ![r].appended = Append(@, u)]

\* Faulty variant: createNotification without its try/catch: the rejection
\* reaches the handler's catch, which answers 500 and ends the loop
NotificationRejectedAborts(r) ==
  LET u == Head(pubs[r].keys) IN
  /\ pubs[r].pc = "notifying"
  /\ pubs' = [pubs EXCEPT ![r].pc = "done", ![r].status = 500]
  /\ hist' = [hist EXCEPT ![r].failed = @ \cup {u}]
  /\ emitted' = <<>>
  /\ UNCHANGED <<userSubscriptions, sockets, posts, notifications>>

\* lines 169-171: client.index rejects; createNotification logs the error
\* and returns normally
NotificationRejected(r) ==
  LET u == Head(pubs[r].keys) IN
  /\ pubs[r].pc = "notifying"
  /\ notifications' = notifications
  /\ AfterNotification(r)
  /\ hist' = [hist EXCEPT ![r].failed = @ \cup {u}]

\* ------------------------------------------------- notification routes
\* lines 234-246: POST /notifications/:username/clear
ClearNotifications(username) ==
  /\ notifications' = DeleteByUsername(notifications, username)
  /\ hist' = [r \in Reqs |->
                IF SetHas(hist[r].appended, username)
                THEN [hist[r] EXCEPT !.cleared = @ \cup {username}]
                ELSE hist[r]]
  /\ emitted' = <<>>
  /\ UNCHANGED <<userSubscriptions, sockets, posts, pubs>>

\* lines 247-250: deleteByQuery rejects; the catch answers 500
ClearNotificationsFailed(username) ==
  /\ emitted' = <<>>
  /\ UNCHANGED <<userSubscriptions, sockets, posts, notifications, pubs, hist>>

\* ------------------------------------------------- subscription routes
\* lines 340-346
Subscribe(username, topic) ==
  /\ userSubscriptions' =
       SubscribeRoute(userSubscriptions, username, topic).userSubscriptions
  /\ hist' = Track(hist, pubs, userSubscriptions')
  /\ emitted' = <<>>
  /\ UNCHANGED <<sockets, posts, notifications, pubs>>

\* lines 349-360
Unsubscribe(username, topic) ==
  /\ userSubscriptions' =
       UnsubscribeRoute(userSubscriptions, username, topic).userSubscriptions
  /\ hist' = Track(hist, pubs, userSubscriptions')
  /\ emitted' = <<>>
  /\ UNCHANGED <<sockets, posts, notifications, pubs>>

\* ---------------------------------------------------------- specification
\* The stores answer a request in flight
Accepts ==
  \/ \E r \in Reqs : SaveAccepted(r)
  \/ \E r \in Reqs : NotificationStored(r)

\* The stores reject
Rejects ==
  \/ \E r \in Reqs : SaveRejected(r)
  \/ \E r \in Reqs : NotificationRejected(r)
  \/ \E u \in Users : ClearNotificationsFailed(u)

Server == Accepts \/ Rejects

\* What clients do, on the sockets S, with usernames from U and topics
\* from T
ClientsOn(S, U, T) ==
  \/ \E s \in S : Connect(s)
  \/ \E s \in S, u \in U : Register(s, u)
  \/ \E s \in S, t \in T : SubscribeToTopic(s, t)
  \/ \E s \in S, t \in T : UnsubscribeFromTopic(s, t)
  \/ \E s \in S : Disconnect(s)
  \/ \E u \in U : ClearNotifications(u)
  \/ \E u \in U \cup {Missing}, t \in T \cup {Missing} : Subscribe(u, t)
  \/ \E u \in U \cup {Missing}, t \in T \cup {Missing} : Unsubscribe(u, t)

Clients(U, T) == ClientsOn(Sockets, U, T)

\* Every topic, one publish
Next ==
  \/ Server
  \/ Clients(Users, Topics)
  \/ /\ Cardinality(Started) < MaxPosts
     /\ \E id \in PostIds, t \in Topics, a \in Authors, x \in Titles :
          PostStart(id, t, a, x)

Spec == Init /\ [][Next]_vars

\* One client and one topic, publishes one after the other
NextSeq ==
  \/ Server
  \/ Clients(SeqUsers, SeqTopics)
  \/ /\ Cardinality({r \in Reqs : InFlight(pubs[r])}) < MaxInFlight
     /\ \E id \in PostIds, t \in SeqTopics, a \in Authors, x \in Titles :
          PostStart(id, t, a, x)

SpecSeq == Init /\ [][NextSeq]_vars

\* The clients alone: sessions and subscriptions, nothing published
NextRegistry == Clients(Users, Topics)

SpecRegistry == Init /\ [][NextRegistry]_vars

\* As Next, with stores that never reject
NextReliable ==
  \/ Accepts
  \/ Clients(Users, Topics)
  \/ /\ Cardinality(Started) < MaxPosts
     /\ \E id \in PostIds, t \in Topics, a \in Authors, x \in Titles :
          PostStart(id, t, a, x)

SpecReliable == Init /\ [][NextReliable]_vars

\* One client and one topic, one publish whose body may lack its title or
\* its topic (line 176 takes the fields as they come)
NextAnyBody ==
  \/ Server
  \/ Clients(SeqUsers, SeqTopics)
  \/ /\ Cardinality(Started) < MaxPosts
     /\ \E id \in PostIds, t \in SeqTopics \cup {Missing}, a \in Authors,
           x \in Titles \cup {Missing} :
          PostStart(id, t, a, x)

SpecAnyBody == Init /\ [][NextAnyBody]_vars

\* As SpecSeq, and the event loop runs every handler whose event has come:
\* socket events and HTTP requests keep being handled.  Nothing obliges a
\* store to answer: lines 183 and 159 await client.index with no timeout
\* and no race of their own.
SpecSeqFair == SpecSeq /\ WF_vars(Clients(SeqUsers, SeqTopics))

\* One user on two sockets and one topic, publishes one after the other
NextPair ==
  \/ Server
  \/ ClientsOn(AllSockets, SeqUsers, SeqTopics)
  \/ /\ Cardinality({r \in Reqs : InFlight(pubs[r])}) < MaxInFlight
     /\ \E id \in PostIds, t \in SeqTopics, a \in Authors, x \in Titles :
          PostStart(id, t, a, x)

SpecPair == Init /\ [][NextPair]_vars

\* The clients alone, with a topic that is no username
NextSessions == Clients(Users, SeqTopics)

SpecSessions == Init /\ [][NextSessions]_vars

\* ------------------------------------------------------------------ claims
Count(seq, x) == Cardinality({i \in DOMAIN seq : seq[i] = x})

\* What GET /notifications/u answers
Listed(u) == GetNotifications(notifications, u).notifications

ListedIn(index, u) == GetNotifications(index, u).notifications

HasPost(list, id) == \E i \in DOMAIN list : list[i].postId = id

Answered201(r) == pubs[r].pc = "done" /\ pubs[r].status = 201

C2_SubscribeRegisters ==
  \A u \in Users, t \in Topics :
    LET out == SubscribeRoute(userSubscriptions, u, t) IN
    out.status = 200 =>
      SetHas(GetSubscriptions(out.userSubscriptions, u).topics, t)

\* C3: a user who was not subscribed to the topic when the post was
\* persisted and has not subscribed to it since (so, any user who never
\* subscribed to it) gets no notification from that publish: none is
\* stored and none is attempted; a user in that position for every publish
\* of the topic has no notification of the topic in the log.
C3_NoSpuriousDelivery ==
  /\ \A r \in Reqs : \A u \in hist[r].absent :
       ~SetHas(hist[r].appended, u) /\ u \notin hist[r].failed
  /\ \A u \in Users, t \in Topics :
       (\A r \in Reqs :
          /\ pubs[r].post.topic = t
          /\ pubs[r].pc = "notifying" \/ pubs[r].status = 201
          => u \in hist[r].absent)
       => \A i \in DOMAIN notifications :
            ~(notifications[i].username = u /\ notifications[i].topic = t)

C3_Witness ==
  \E r \in Reqs : \E u \in hist[r].absent :
    /\ Answered201(r)
    /\ HasKey(userSubscriptions, u)
    /\ hist[r].appended # <<>>
    /\ Listed(u) = <<>>

Subscribers(subs) == [t \in Topics |-> SubscribersOf(subs, t)]

\* C5: after a subscribe step the same subscribe again leaves every
\* topic's subscriber set as it is, after an unsubscribe step the same
\* unsubscribe again leaves them as they are, and an unsubscribe of a pair
\* that is not subscribed leaves them as they are.
C5_Idempotence ==
  [][/\ \A s \in Sockets, t \in Topics :
          SubscribeToTopic(s, t) /\ sockets[s].username # NoUser
            => Subscribers(AddSubscription(userSubscriptions',
                                           sockets[s].username, t))
                 = Subscribers(userSubscriptions')
     /\ \A s \in Sockets, t \in Topics :
          UnsubscribeFromTopic(s, t) /\ sockets[s].username # NoUser
            => /\ Subscribers(DeleteSubscription(userSubscriptions',
                                                 sockets[s].username, t))
                    = Subscribers(userSubscriptions')
               /\ ~SetHas(TopicsOf(userSubscriptions, sockets[s].username), t)
                    => Subscribers(userSubscriptions')
                         = Subscribers(userSubscriptions)
     /\ \A u \in Users, t \in Topics :
          Unsubscribe(u, t)
            => /\ Subscribers(UnsubscribeRoute(userSubscriptions', u, t)
                                .userSubscriptions)
                    = Subscribers(userSubscriptions')
               /\ ~SetHas(TopicsOf(userSubscriptions, u), t)
                    => Subscribers(userSubscriptions')
                         = Subscribers(userSubscriptions)
     /\ \A u \in Users, t \in Topics :
          Subscribe(u, t)
            => Subscribers(SubscribeRoute(userSubscriptions', u, t)
                             .userSubscriptions)
                 = Subscribers(userSubscriptions')
    ]_vars

\* a user subscribed to one topic and not to another: a second subscribe
\* repeats the first, an unsubscribe of the other topic has no pair to remove
C5_Witness ==
  \E u \in Users, t1 \in Topics, t2 \in Topics :
    /\ SetHas(TopicsOf(userSubscriptions, u), t1)
    /\ ~SetHas(TopicsOf(userSubscriptions, u), t2)
    /\ \E s \in Sockets : sockets[s].username = u /\ t1 \in sockets[s].rooms

\* C6: a successful POST /notifications/u/clear leaves GET /notifications/u
\* with no entry, leaves what GET /notifications/v answers for every other
\* user v as it was, and leaves the subscriptions as they were.
C6_ClearScoped ==
  [][\A u \in Users :
       ClearNotifications(u)
         => /\ ListedIn(notifications', u) = <<>>
            /\ \A v \in Users \ {u} : ListedIn(notifications', v) = Listed(v)
            /\ userSubscriptions' = userSubscriptions
    ]_vars

\* u's notification was cleared while another user still has one
C6_Witness ==
  \E r \in Reqs : \E u \in hist[r].cleared : \E v \in Users \ {u} :
    /\ Listed(u) = <<>>
    /\ Listed(v) # <<>>

\* C7: when the content store rejects the post, the request answers 500,
\* no notification is stored, nothing is emitted, and the posts and the
\* subscriptions are as before; a request that answered 500 has stored and
\* attempted no notification.
C7_PersistFailureAborts ==
  [][/\ \A r \in Reqs :
          pubs[r].pc = "saving" /\ pubs'[r].status = 500
            => /\ pubs'[r].pc = "done"
               /\ notifications' = notifications
               /\ emitted' = <<>>
               /\ posts' = posts
               /\ userSubscriptions' = userSubscriptions
     /\ \A r \in Reqs :
          pubs'[r].status = 500
            => hist'[r].appended = <<>> /\ hist'[r].failed = {}
    ]_vars

\* the save was rejected for a topic that has a subscriber
C7_Witness ==
  \E r \in Reqs :
    /\ pubs[r].status = 500
    /\ SubscribersOf(userSubscriptions, pubs[r].post.topic) # {}

\* C8: a publish whose notification write was rejected for some user never
\* answers 500; it answers 201, and every other user subscribed to the
\* topic throughout the publish has had a notification stored, unless that
\* write was rejected too.
C8_FanoutTolerant ==
  \A r \in Reqs : hist[r].failed # {} =>
    /\ pubs[r].status # 500
    /\ pubs[r].pc = "done" =>
         /\ pubs[r].status = 201
         /\ \A u \in hist[r].held \ hist[r].failed :
              SetHas(hist[r].appended, u)

\* the write for the first subscriber was rejected, the one for the next
\* subscriber was stored
C8_Witness ==
  \E r \in Reqs : \E u \in hist[r].failed : \E v \in hist[r].held :
    /\ Answered201(r)
    /\ v # u
    /\ hist[r].appended = <<v>>
    /\ HasPost(Listed(v), pubs[r].post.id)

\* C9 (as claimed): when a POST /posts has answered 201, every user who was
\* subscribed to the topic when the post was persisted has had exactly one
\* notification stored by that publish.
C9_ExactlyOnePerSubscriber ==
  \A r \in Reqs : Answered201(r) =>
    \A u \in hist[r].atSave : Count(hist[r].appended, u) = 1

\* C10 (as claimed): a 'newPost' emit for a notified user reaches every
\* connected session registered as that user.
C10_PushReachesBoundSessions ==
  \A i \in DOMAIN emitted :
    \A s \in Sockets :
      sockets[s].connected /\ sockets[s].username = emitted[i].room
        => s \in emitted[i].to

Offline(socks, u) ==
  \A s \in Sockets : ~(socks[s].connected /\ socks[s].username = u)

Template(T, A, X) == <<"New post in ", T, " posted by ", A, ": ", X>>

\* The request whose publish carries the timestamp
PublishOf(timestamp) ==
  {r \in Reqs : pubs[r].timestamp = timestamp /\ pubs[r].pc # "idle"}

\* C12: every stored notification belongs to a publish of a post with topic
\* T, author A, title X and id P that stored it for that user, and has the
\* message "New post in T posted by A: X", postId P, topic T and read false;
\* every 'newPost' event belongs to such a publish, carries that message,
\* postId and topic, and agrees in them with every entry the publish stored.
C12_NotificationContent ==
  /\ \A i \in DOMAIN notifications :
       LET d == notifications[i] IN
       /\ PublishOf(d.timestamp) # {}
       /\ \A r \in PublishOf(d.timestamp) :
            /\ SetHas(hist[r].appended, d.username)
            /\ d.message = Template(pubs[r].post.topic, pubs[r].post.author,
                                    pubs[r].post.title)
            /\ d.postId = pubs[r].post.id
            /\ d.topic = pubs[r].post.topic
            /\ d.read = FALSE
  /\ \A j \in DOMAIN emitted :
       LET e == emitted[j].event IN
       /\ PublishOf(e.timestamp) # {}
       /\ \A r \in PublishOf(e.timestamp) :
            /\ e.message = Template(pubs[r].post.topic, pubs[r].post.author,
                                    pubs[r].post.title)
            /\ e.postId = pubs[r].post.id
            /\ e.topic = pubs[r].post.topic
       /\ \A i \in DOMAIN notifications :
            notifications[i].timestamp = e.timestamp
              => /\ notifications[i].message = e.message
                 /\ notifications[i].postId = e.postId
                 /\ notifications[i].topic = e.topic

\* the spec's scenario: alice is listed and pushed "New post in sports
\* posted by bob: Game Day" for post p1
C12_Witness ==
  /\ emitted # <<>>
  /\ emitted[1].room = "alice"
  /\ emitted[1].to # {}
  /\ Listed("alice") # <<>>
  /\ Listed("alice")[1].message =
       <<"New post in ", "sports", " posted by ", "bob", ": ", "Game Day">>
  /\ Listed("alice")[1].postId = "p1"
  /\ Listed("alice")[1].topic = "sports"
  /\ Listed("alice")[1].read = FALSE
  /\ emitted[1].event.message = Listed("alice")[1].message
  /\ emitted[1].event.postId = "p1"

Lacking(post) ==
  post.id = Missing \/ post.title = Missing \/ post.topic = Missing
    \/ post.author = Missing

\* C13 (as claimed): a POST /posts whose body lacks a required field is
\* never answered 201, its post is not saved and it stores and attempts no
\* notification.
C13_Validation ==
  \A r \in Reqs :
    pubs[r].pc # "idle" /\ Lacking(pubs[r].post)
      => /\ pubs[r].status # 201
         /\ pubs[r].post \notin posts
         /\ hist[r].appended = <<>>
         /\ hist[r].failed = {}

\* C14 (as claimed): the users a publish stores or attempts a notification
\* for were all subscribed to the topic when the post was persisted.
C14_SnapshotOfSubscribers ==
  \A r \in Reqs : \A u \in Users :
    SetHas(hist[r].appended, u) \/ u \in hist[r].failed
      => u \in hist[r].atSave

\* C15 (as claimed): a publish that has stored, attempted or pushed a
\* notification has its post persisted, and whenever a 'newPost' event of
\* post p is emitted to the room of user u, the notification index holds
\* an entry of that publish for u.
C15_PersistenceBeforePush ==
  /\ \A r \in Reqs :
       hist[r].appended # <<>> \/ hist[r].failed # {}
         => \E p \in posts : p.id = pubs[r].post.id
  /\ \A j \in DOMAIN emitted :
       /\ \E p \in posts : p.id = emitted[j].event.postId
       /\ \E i \in DOMAIN notifications :
            /\ notifications[i].username = emitted[j].room
            /\ notifications[i].postId = emitted[j].event.postId
            /\ notifications[i].timestamp = emitted[j].event.timestamp

\* The users whose 'newPost' events reach the session
Targets(s) == {u \in Users : s \in Recipients(sockets, u)}

\* C16 (as claimed): every session is a delivery target for at most one
\* username.
C16_OneUsernamePerSession ==
  \A s \in Sockets : Cardinality(Targets(s)) <= 1

\* C17 (as claimed): every topic room (a room that is no username's) a
\* connected, registered session has joined is a topic its username is
\* subscribed to.
C17_SessionTopicsSubscribed ==
  \A s \in Sockets :
    sockets[s].connected /\ sockets[s].username # NoUser
      => \A t \in sockets[s].rooms \ Users :
           SetHas(TopicsOf(userSubscriptions, sockets[s].username), t)

\* C18 (as claimed): when a POST /posts of topic t answers 201, every
\* connected session that has joined room t while its username (if any) is
\* not subscribed to t is reached by a 'newPost' event of that post, and no
\* notification is stored on behalf of an unregistered session.
C18_GroupMembersReceive ==
  [][\A r \in Reqs :
       pubs[r].pc # "done" /\ pubs'[r].pc = "done" /\ pubs'[r].status = 201
         => /\ \A s \in Sockets :
                 /\ sockets[s].connected
                 /\ pubs[r].post.topic \in sockets[s].rooms
                 /\ ~SetHas(TopicsOf(userSubscriptions, sockets[s].username),
                            pubs[r].post.topic)
                 => \E j \in DOMAIN emitted' :
                      /\ emitted'[j].event.postId = pubs[r].post.id
                      /\ s \in emitted'[j].to
            /\ \A i \in DOMAIN notifications' :
                 notifications'[i].username # NoUser
    ]_vars

\* C19 (as claimed): every POST /posts that has started is answered in the
\* end, whether or not the stores answer its calls.
C19_PublishAlwaysAnswers ==
  \A r \in Reqs : InFlight(pubs[r]) ~> (pubs[r].pc = "done")

====
